---- MODULE Spec2Model ----
(***************************************************************************)
(* Verification model of thiagojobson/instances (optlis).                  *)
(*                                                                         *)
(*   - the precedence relation derived from the task risks and the         *)
(*     relaxation threshold (Instance.precedence / G.dag);                 *)
(*   - the static MILP formulations model_1, model_2 and make_prob: a      *)
(*     candidate 0/1 assignment is built bit by bit and accepted exactly   *)
(*     when every constraint the model states holds;                       *)
(*   - the dynamic MILP make_lp: operations are chosen one time unit at a  *)
(*     time and the concentration is advanced by the model's equations;    *)
(*   - load_instance / _write_instance of the dynamic instance file;       *)
(*   - the ILS driver around solvers/localsearch.local_search.             *)
(*                                                                         *)
(* Real quantities are kept as exact integers: risks and thresholds in     *)
(* tenths, file values in thousandths, concentrations as numerators over   *)
(* a fixed power of the rate denominator.                                  *)
(***************************************************************************)
EXTENDS Integers, Sequences, FiniteSets, TLC

VARIABLES
    \* ---- precedence graph
    taskRisk,      \* r: task -> risk, in tenths
    precCache,     \* threshold -> precedence(threshold), or NotComputed
    \* ---- static MILP models (model_1, model_2, make_prob)
    G,             \* the instance: p, r, q, c and the relaxation threshold
    model,         \* which formulation is being solved
    m1_x,          \* model_1: the pairs <<i, t>> with x[i][t] = 1
    m2_y,          \* model_2 / make_prob: the triples <<i, j, t>> with y[i][j][t] = 1
    sol,           \* the values of the integer variables of an accepted schedule
    status,        \* "idle", "building" or "optimal"
    \* ---- dynamic MILP model (make_lp)
    inst,          \* the dynamic instance
    now,           \* the last time unit whose variables are fixed (0: none)
    lp_x,          \* x: time unit -> the pairs <<i, p>> with x[i][p][t] = 1
    lp_y,          \* y: time unit -> the tasks i with y[i][t] = 1
    lp_z,          \* z: time unit -> the tasks i with z[i][t] = 1
    lp_w,          \* w: time unit -> [<<i, p>> -> concentration]
    lp_d,          \* d: time unit -> [<<i, p>> -> degraded amount]
    lp_q,          \* q: time unit -> [<<i, p, s>> -> amount moved from p to s]
    lp_r,          \* r: time unit -> [<<i, p>> -> removed amount]
    \* ---- dynamic instance files (load_instance, _write_instance)
    infile,        \* the lines of the file that is loaded
    loaded,        \* the result of load_instance: an Instance or an error
    outfile,       \* the lines _write_instance wrote
    fpc,           \* "start", "loaded", "load_error", "written", "write_error"
    \* ---- iterated local search (ils command, local_search)
    args,          \* the command line: evaluations, parallel, seed, tuning
    nextRun,       \* the index of the next run to start
    worker,        \* worker -> the run it executes, 0 when free
    run,           \* run -> its state: pc, solutions, budget
    rngs,          \* generator -> its state
    results,       \* run -> the result reported for it
    \* ---- solution files and objective reporting (utils, notebook_utils)
    solmap,        \* the solution mapping handed to export_solution
    solfile,       \* the lines of the solution file
    imported,      \* the mapping import_solution returned, or its error
    reports,       \* reporting function -> its outcome, once called
    spc            \* "start", "exported", "imported", "import_error"

precVars == <<taskRisk, precCache>>

staticVars == <<G, model, m1_x, m2_y, sol, status>>

dynVars == <<inst, now, lp_x, lp_y, lp_z, lp_w, lp_d, lp_q, lp_r>>

fileVars == <<infile, loaded, outfile, fpc>>

ilsVars == <<args, nextRun, worker, run, rngs, results>>

solVars == <<solmap, solfile, imported, reports, spc>>

vars == <<precVars, staticVars, dynVars, fileVars, ilsVars, solVars>>

\* What the actions of one part of the program leave alone.
notPrecVars == <<staticVars, dynVars, fileVars, ilsVars, solVars>>

notStaticVars == <<precVars, dynVars, fileVars, ilsVars, solVars>>

notDynVars == <<precVars, staticVars, fileVars, ilsVars, solVars>>

notFileVars == <<precVars, staticVars, dynVars, ilsVars, solVars>>

notIlsVars == <<precVars, staticVars, dynVars, fileVars, solVars>>

notSolVars == <<precVars, staticVars, dynVars, fileVars, ilsVars>>

(***************************************************************************)
(* Generic helpers                                                         *)
(***************************************************************************)

RECURSIVE SumOver(_, _)
\* sum(f[k] for k in S)
SumOver(S, f) ==
    IF S = {} THEN 0
    ELSE LET k == CHOOSE k \in S : TRUE
         IN  f[k] + SumOver(S \ {k}, f)

Max(a, b) == IF a >= b THEN a ELSE b

RECURSIVE MaxOver(_, _)
\* max(f[k] for k in S), 0 for an empty S
MaxOver(S, f) ==
    IF S = {} THEN 0
    ELSE LET k == CHOOSE k \in S : TRUE
         IN  Max(f[k], MaxOver(S \ {k}, f))

(***************************************************************************)
(* PrecedenceGraph                                                         *)
(***************************************************************************)

\* Risks and relaxation thresholds are normalised to [0, 1]; the model keeps
\* them in tenths, so 1.0 is RiskScale.
RiskScale == 10

\* Number of tasks of the generated instances of the precedence model.
NumPrecTasks == 3

PrecTasks == 1..NumPrecTasks

\* Risk values the generated instances draw from.
RiskLevels == {0, 3, 5, RiskScale}

\* The relaxation thresholds of test_Graph__precedence: 0, 0.1, 0.3 and 1.
Thresholds == {0, 1, 3, RiskScale}

\* The task risks of data/instances/example.dat, as test_export_instance
\* prints them (node rows "id type p q r").
ExampleRisk ==
    (1 :> 1) @@ (2 :> 2) @@ (3 :> 3) @@ (4 :> 4) @@
    (5 :> 5) @@ (6 :> 5) @@ (7 :> 6) @@ (8 :> 7)

\* The table of test_Graph__precedence: the relation expected for each d.
ExpectedPrecedence(d) ==
    CASE d = 0 ->
           {<<8, 7>>, <<8, 6>>, <<8, 5>>, <<8, 4>>, <<8, 3>>, <<8, 2>>, <<8, 1>>,
            <<7, 6>>, <<7, 5>>, <<7, 4>>, <<7, 3>>, <<7, 2>>, <<7, 1>>,
            <<6, 4>>, <<6, 3>>, <<6, 2>>, <<6, 1>>,
            <<5, 4>>, <<5, 3>>, <<5, 2>>, <<5, 1>>,
            <<4, 3>>, <<4, 2>>, <<4, 1>>,
            <<3, 2>>, <<3, 1>>,
            <<2, 1>>}
      [] d = 1 ->
           {<<8, 6>>, <<8, 5>>, <<8, 4>>, <<8, 3>>, <<8, 2>>, <<8, 1>>,
            <<7, 4>>, <<7, 3>>, <<7, 2>>, <<7, 1>>,
            <<6, 3>>, <<6, 2>>, <<6, 1>>,
            <<5, 3>>, <<5, 2>>, <<5, 1>>,
            <<4, 2>>, <<4, 1>>,
            <<3, 1>>}
      [] d = 3 ->
           {<<8, 3>>, <<8, 2>>, <<8, 1>>,
            <<7, 2>>, <<7, 1>>,
            <<6, 1>>,
            <<5, 1>>}
      [] OTHER -> {}

\* A variant of the construction that compares the risk gap with (1 - d)
\* instead of d.
PrecedenceOrEqual(r, d) ==
    {pr \in (DOMAIN r) \X (DOMAIN r) :
        pr[1] # pr[2] /\ r[pr[1]] - r[pr[2]] >= d}

PrecedenceInverted(r, d) ==
    {pr \in (DOMAIN r) \X (DOMAIN r) :
        pr[1] # pr[2] /\ r[pr[1]] - r[pr[2]] > RiskScale - d}

\* precedence(d) / dag(p=d): task i is ordered before task j when the risk of
\* i exceeds the risk of j by more than the threshold d.
Precedence(r, d) ==
    {pr \in (DOMAIN r) \X (DOMAIN r) :
        pr[1] # pr[2] /\ r[pr[1]] - r[pr[2]] > d}

\* A cache entry that holds no relation yet.
NotComputed == [computed |-> FALSE, pairs |-> {}]

\* The state of the parts of the program a specification leaves alone.
StaticIdle ==
    /\ G = [p |-> <<>>, r |-> <<>>, q |-> <<>>, c |-> 0, d |-> 0]
    /\ model = "none"
    /\ m1_x = {}
    /\ m2_y = {}
    /\ sol = [makespan |-> 0]
    /\ status = "idle"

PrecIdle ==
    /\ taskRisk = <<>>
    /\ precCache = <<>>

DynIdle ==
    /\ inst = <<>>
    /\ now = 0
    /\ lp_x = <<>>
    /\ lp_y = <<>>
    /\ lp_z = <<>>
    /\ lp_w = <<>>
    /\ lp_d = <<>>
    /\ lp_q = <<>>
    /\ lp_r = <<>>

FileIdle ==
    /\ infile = <<>>
    /\ loaded = <<>>
    /\ outfile = <<>>
    /\ fpc = "idle"

IlsIdle ==
    /\ args = <<>>
    /\ nextRun = 0
    /\ worker = <<>>
    /\ run = <<>>
    /\ rngs = <<>>
    /\ results = <<>>

SolIdle ==
    /\ solmap = <<>>
    /\ solfile = <<>>
    /\ imported = <<>>
    /\ reports = <<>>
    /\ spc = "idle"

PrecInit ==
    /\ StaticIdle
    /\ DynIdle
    /\ FileIdle
    /\ IlsIdle
    /\ SolIdle
    /\ taskRisk \in [PrecTasks -> RiskLevels] \cup {ExampleRisk}
    /\ precCache = [d \in Thresholds |-> NotComputed]

\* inst.precedence(d=d): derived once per threshold and cached.
ComputePrecedence(d) ==
    /\ ~precCache[d].computed
    /\ precCache' = [precCache EXCEPT
                        ![d] = [computed |-> TRUE, pairs |-> Precedence(taskRisk, d)]]
    /\ UNCHANGED <<taskRisk, notPrecVars>>

PrecNext == \E d \in Thresholds : ComputePrecedence(d)

SpecPrec == PrecInit /\ [][PrecNext]_vars

Computed(d) == precCache[d].computed

\* The pairs (i1, ik) joined by a sequence (i1,i2), ..., (ik-1,ik) of at most
\* n pairs.
RECURSIVE Chains(_, _)
Chains(pairs, n) ==
    IF n <= 1 THEN pairs
    ELSE LET shorter == Chains(pairs, n - 1)
         IN  shorter \cup
             UNION {{<<a[1], b[2]>> : b \in {e \in pairs : e[1] = a[2]}} :
                       a \in shorter}

\* C15: for every threshold d, precedence(d) is acyclic: no sequence of tasks
\* i1, ..., ik (k >= 1) has (i1,i2), ..., (ik,i1) all in precedence(d); in
\* particular no self-pair (i, i) is in it.
C15_Acyclic ==
    \A d \in Thresholds :
        Computed(d) =>
            \A i \in DOMAIN taskRisk :
                /\ <<i, i>> \notin precCache[d].pairs
                /\ <<i, i>> \notin Chains(precCache[d].pairs, Len(taskRisk))

\* Witness of C15: precedence(0) is computed on tasks where two have the same
\* risk and no pair joins them, and holds a chain i -> j -> k.
C15_Witness ==
    /\ Computed(0)
    /\ \E i, j, k \in DOMAIN taskRisk :
           /\ <<i, j>> \in precCache[0].pairs
           /\ <<j, k>> \in precCache[0].pairs
    /\ \E i, j \in DOMAIN taskRisk :
           /\ i # j
           /\ taskRisk[i] = taskRisk[j]
           /\ <<i, j>> \notin precCache[0].pairs

\* C1: for thresholds d1 < d2, precedence(d2) is a subset of precedence(d1),
\* and precedence(1) is empty: raising the threshold only removes pairs.
C1_MonotoneRelaxation ==
    /\ \A d1, d2 \in Thresholds :
          (d1 < d2 /\ Computed(d1) /\ Computed(d2))
              => precCache[d2].pairs \subseteq precCache[d1].pairs
    /\ Computed(RiskScale) => precCache[RiskScale].pairs = {}

\* Witness of C1: two computed thresholds where the larger one removed some
\* pairs and kept others, and precedence(1) has been computed.
C1_Witness ==
    /\ Computed(RiskScale)
    /\ \E d1, d2 \in Thresholds :
          /\ d1 < d2 /\ Computed(d1) /\ Computed(d2)
          /\ precCache[d2].pairs # {}
          /\ precCache[d2].pairs # precCache[d1].pairs
          /\ precCache[d2].pairs \subseteq precCache[d1].pairs

(***************************************************************************)
(* Static MILP models: solvers/cplex.py model_1, model_2 and               *)
(* instances/solvers/cplex.py make_prob                                    *)
(***************************************************************************)

\* Number of time periods of the static instances: T = G.time_periods.
NumPeriods == 4

\* The makespan variable is bounded below only; the solver may report any
\* value up to this much above the largest completion time.
MakespanSlack == 1

\* G.origins, G.destinations, G.nodes
O == {0}

D == {1, 2}

V == O \cup D

\* G.time_periods: the periods 0 .. horizon - 1 (test_Graph: the last period
\* of a horizon of 56 is 55; model_1 filters tau >= 0).
T == 0..(NumPeriods - 1)

\* Values the generated static instances draw from.
Durations == {1, 2}

Crews == {1, 2}

SetupTimes == {0, 1}

StaticRisks == {<<6, 2>>, <<2, 6>>}

StaticThresholds == {0, 5}

StaticModels == {"model_1", "model_2", "make_prob"}

FlowModels == {"model_2", "make_prob"}

\* K = sum(nx.get_node_attributes(G, "q").values())
K(g) == SumOver(DOMAIN g.q, g.q)

\* G.dag(p=relaxation_threshold)
dag(g) == Precedence(g.r, g.d)

\* A candidate is the set of the index tuples of its variables that are 1:
\* xs holds <<i, t>> when x[i][t] = 1 and ys holds <<i, j, t>> when
\* y[i][j][t] = 1. A sum lpSum(coef * x[...]) over an index set is then the
\* sum of coef over the tuples of the candidate that lie in the index set.
lpSum(ones, coef) == SumOver(ones, [k \in ones |-> coef[k]])

\* ------------------------------------------------------------ model_1

\* A window that misses the period at which the task started p[i] - 1
\* periods ago.
ResourceWindowShort(g, i, t) ==
    {tau \in (t - g.p[i] + 2)..t : tau >= 0}

\* range(t - p[i] + 1, t + 1) if tau >= 0
ResourceWindow(g, i, t) ==
    {tau \in (t - g.p[i] + 1)..t : tau >= 0}

\* Resource_constraint_at_period_t
ResourceConstraint(g, xs, t) ==
    LET idx == {k \in xs : k[1] \in D /\ k[2] \in ResourceWindow(g, k[1], t)}
    IN  lpSum(idx, [k \in idx |-> 1]) <= K(g)

\* lpSum([x[i][t] for t in T])
StartCount(xs, i) ==
    LET idx == {k \in xs : k[1] = i /\ k[2] \in T}
    IN  lpSum(idx, [k \in idx |-> 1])

\* Clean_destination_i
CleanDestination(xs, i) == StartCount(xs, i) = 1

\* Start_time_of_i: S[i] == lpSum(t * x[i][t] for t in T)
StartTime(xs, i) ==
    LET idx == {k \in xs : k[1] = i /\ k[2] \in T}
    IN  lpSum(idx, [k \in idx |-> k[2]])

\* Completion_time_of_i: C[i] == lpSum((t + p[i]) * x[i][t] for t in T)
CompletionTime(g, xs, i) ==
    LET idx == {k \in xs : k[1] = i /\ k[2] \in T}
    IN  lpSum(idx, [k \in idx |-> k[2] + g.p[i]])

\* Start_i_before_j: S[i] <= S[j]
StartBefore(S, i, j) == S[i] <= S[j]

\* Every constraint of model_1 on the binary variables x, with S and C set
\* by their defining equalities.
Model1Feasible(g, xs) ==
    LET S == [i \in D |-> StartTime(xs, i)]
    IN  /\ \A t \in T : ResourceConstraint(g, xs, t)
        /\ \A i \in D : CleanDestination(xs, i)
        /\ \A pr \in dag(g) : StartBefore(S, pr[1], pr[2])

\* Cmax_geq_C_i: makespan >= lpSum((t + p[i]) * x[i][t] for t in T), all i
Model1Makespans(g, xs) ==
    LET lo == MaxOver(D, [i \in D |-> CompletionTime(g, xs, i)])
    IN  lo..(lo + MakespanSlack)

\* ------------------------------------------------- model_2 / make_prob

\* R1_Flow_depart_from_origin_i
R1(g, ys, i) ==
    LET idx == {k \in ys : k[1] = i /\ k[2] \in D /\ k[3] \in T}
    IN  lpSum(idx, [k \in idx |-> 1]) <= g.q[i]

\* lpSum(y[i][j][t] for t in T for i in V if i != j)
EnterCount(ys, j) ==
    LET idx == {k \in ys : k[2] = j /\ k[1] \in V \ {j} /\ k[3] \in T}
    IN  lpSum(idx, [k \in idx |-> 1])

\* lpSum(y[j][i][t] for t in T for i in V if i != j)
LeaveCount(ys, j) ==
    LET idx == {k \in ys : k[1] = j /\ k[2] \in V \ {j} /\ k[3] \in T}
    IN  lpSum(idx, [k \in idx |-> 1])

\* R2_Enter_j
R2(ys, j) == EnterCount(ys, j) = 1

\* R3_Leave_j
R3(ys, j) == LeaveCount(ys, j) = 1

\* lpSum(t * y[j][i][t] for i in V if i != j for t in T): the period at which
\* the flow leaves j
LeaveTime(ys, j) ==
    LET idx == {k \in ys : k[1] = j /\ k[2] \in V \ {j} /\ k[3] \in T}
    IN  lpSum(idx, [k \in idx |-> k[3]])

\* R5_Start_of_j: sd[j] == lpSum(t * y[i][j][t] for t in T for i in V if i != j)
sd_of(ys, j) ==
    LET idx == {k \in ys : k[2] = j /\ k[1] \in V \ {j} /\ k[3] \in T}
    IN  lpSum(idx, [k \in idx |-> k[3]])

\* R7_Completion_of_j:
\* cd[j] == lpSum((t + c[i][j]) * y[i][j][t] for t in T for i in V if i != j) + p[j]
cd_of(g, ys, j) ==
    LET idx == {k \in ys : k[2] = j /\ k[1] \in V \ {j} /\ k[3] \in T}
    IN  lpSum(idx, [k \in idx |-> k[3] + g.c]) + g.p[j]

\* The flow conservation constraint stated on the start of j instead of its
\* completion.
R4FromStart(g, ys, j) == LeaveTime(ys, j) - sd_of(ys, j) >= 0

\* R4_Flow_conservation_j
R4(g, ys, j) == LeaveTime(ys, j) - cd_of(g, ys, j) >= 0

\* The precedence constraint of the flow models with its sides swapped.
R6Swapped(sd, i, j) == sd[j] <= sd[i]

\* R6_Start_i_before_j: sd[i] <= sd[j]
R6(sd, i, j) == sd[i] <= sd[j]

\* Every constraint of model_2 (and of make_prob, which states the same
\* constraints) on the binary variables y, with sd and cd set by R5 and R7.
FlowFeasible(g, ys) ==
    LET sd == [j \in D |-> sd_of(ys, j)]
    IN  /\ \A i \in O : R1(g, ys, i)
        /\ \A j \in D : R2(ys, j)
        /\ \A j \in D : R3(ys, j)
        /\ \A j \in D : R4(g, ys, j)
        /\ \A pr \in dag(g) : R6(sd, pr[1], pr[2])

\* makespan >= cd[j], all j
FlowMakespans(g, ys) ==
    LET lo == MaxOver(D, [j \in D |-> cd_of(g, ys, j)])
    IN  lo..(lo + MakespanSlack)

\* ------------------------------------------------------------ the solver

\* The order in which the solver fixes variables to 1.
RankX(k) == k[1] * NumPeriods + k[2]

RankY(k) == (k[1] * Cardinality(V) + k[2]) * NumPeriods + k[3]

StaticInit ==
    /\ PrecIdle
    /\ DynIdle
    /\ FileIdle
    /\ IlsIdle
    /\ SolIdle
    /\ G \in [p : [D -> Durations], r : StaticRisks, q : [O -> Crews],
              c : SetupTimes, d : StaticThresholds]
    /\ model \in StaticModels
    /\ m1_x = {}
    /\ m2_y = {}
    /\ sol = [makespan |-> 0]
    /\ status = "building"

\* The solver fixes x[i][t] = 1 in a candidate of model_1. It branches on no
\* candidate that already starts task i: the sum of Clean_destination_i only
\* grows.
SetX(i, t) ==
    /\ status = "building"
    /\ model = "model_1"
    /\ StartCount(m1_x, i) = 0
    /\ \A k \in m1_x : RankX(k) < RankX(<<i, t>>)
    /\ m1_x' = m1_x \cup {<<i, t>>}
    /\ UNCHANGED <<G, model, m2_y, sol, status, notStaticVars>>

\* The solver fixes y[i][j][t] = 1 in a candidate of model_2 / make_prob.
\* y[i][i][t] occurs in no constraint and is left out. It branches on no
\* candidate that already enters j or leaves i, when these are jobs: the sums
\* of R2 and R3 only grow.
SetY(i, j, t) ==
    /\ status = "building"
    /\ model \in FlowModels
    /\ i # j
    /\ j \in D => EnterCount(m2_y, j) = 0
    /\ i \in D => LeaveCount(m2_y, i) = 0
    /\ \A k \in m2_y : RankY(k) < RankY(<<i, j, t>>)
    /\ m2_y' = m2_y \cup {<<i, j, t>>}
    /\ UNCHANGED <<G, model, m1_x, sol, status, notStaticVars>>

\* model_1 accepts the candidate: every constraint holds.
Solve1 ==
    /\ status = "building"
    /\ model = "model_1"
    /\ Model1Feasible(G, m1_x)
    /\ \E mk \in Model1Makespans(G, m1_x) :
          sol' = [makespan |-> mk,
                  S |-> [i \in D |-> StartTime(m1_x, i)],
                  C |-> [i \in D |-> CompletionTime(G, m1_x, i)]]
    /\ status' = "optimal"
    /\ UNCHANGED <<G, model, m1_x, m2_y, notStaticVars>>

\* model_2 / make_prob accepts the candidate: every constraint holds.
Solve2 ==
    /\ status = "building"
    /\ model \in FlowModels
    /\ FlowFeasible(G, m2_y)
    /\ \E mk \in FlowMakespans(G, m2_y) :
          sol' = [makespan |-> mk,
                  sd |-> [j \in D |-> sd_of(m2_y, j)],
                  cd |-> [j \in D |-> cd_of(G, m2_y, j)]]
    /\ status' = "optimal"
    /\ UNCHANGED <<G, model, m1_x, m2_y, notStaticVars>>

StaticNext ==
    \/ \E i \in D, t \in T : SetX(i, t)
    \/ \E i \in V, j \in V, t \in T : SetY(i, j, t)
    \/ Solve1
    \/ Solve2

SpecStatic == StaticInit /\ [][StaticNext]_vars

\* The number of tasks whose occupied interval [start, start + p - 1] covers t
\* in an accepted schedule of model_1.
Occupying(t) ==
    {i \in D : sol.S[i] <= t /\ t <= sol.S[i] + G.p[i] - 1}

\* C2: in every schedule model_1 accepts, at every time period the number of
\* tasks whose occupied interval covers the period is at most K.
C2_ResourceCapacity ==
    (status = "optimal" /\ model = "model_1")
        => \A t \in 0..(NumPeriods + 2) : Cardinality(Occupying(t)) <= K(G)

\* Witness of C2: an accepted schedule of model_1 over tasks of two periods
\* each, with one crew, where some period is occupied by exactly K tasks.
C2_Witness ==
    /\ status = "optimal" /\ model = "model_1"
    /\ K(G) = 1
    /\ \E i \in D : G.p[i] = 2
    /\ \E t \in T : Cardinality(Occupying(t)) = K(G)

\* The single time period at which the start indicator of task i is 1.
StartOf(i) ==
    IF model = "model_1"
    THEN CHOOSE t \in T : <<i, t>> \in m1_x
    ELSE CHOOSE t \in T : \E k \in V \ {i} : <<k, i, t>> \in m2_y

\* C3: in every schedule a static model accepts, every pair (i, j) of
\* precedence(d) has start(i) <= start(j).
C3_PrecedenceRespected ==
    status = "optimal"
        => \A pr \in Precedence(G.r, G.d) : StartOf(pr[1]) <= StartOf(pr[2])

\* Witness of C3: an accepted schedule of a flow model and a non-empty
\* precedence relation, whose ordered tasks start at different periods.
C3_Witness ==
    /\ status = "optimal" /\ model \in FlowModels
    /\ \E pr \in Precedence(G.r, G.d) : StartOf(pr[1]) < StartOf(pr[2])

\* The arcs of a flow solution that enter task j, and those that leave it.
Entering(j) == {k \in m2_y : k[2] = j /\ k[1] # j}

Leaving(j) == {k \in m2_y : k[1] = j /\ k[2] # j}

\* C22: in every solution of the flow model every task j is entered exactly
\* once and left exactly once, cd[j] = sd[j] + travel time + p[j], the crew
\* leaves j at a period >= cd[j], and the task it enters next starts at that
\* period: two tasks served one after the other by a crew do not overlap.
C22_FlowNoOverlap ==
    (status = "optimal" /\ model \in FlowModels) =>
        \A j \in D :
            /\ Cardinality(Entering(j)) = 1
            /\ Cardinality(Leaving(j)) = 1
            /\ \A k \in Entering(j) : sol.sd[j] = k[3]
            /\ sol.cd[j] = sol.sd[j] + G.c + G.p[j]
            /\ \A k \in Leaving(j) :
                   /\ k[3] >= sol.cd[j]
                   /\ k[2] \in D => (sol.sd[k[2]] = k[3] /\ sol.sd[k[2]] >= sol.cd[j])

\* Witness of C22: a solution of a flow model where one crew serves a task of
\* two periods and then the other task, which starts at the very period the
\* first one completes.
C22_Witness ==
    /\ status = "optimal" /\ model \in FlowModels
    /\ \E j \in D, i \in D, t \in T :
           /\ <<j, i, t>> \in m2_y
           /\ G.p[j] = 2
           /\ sol.sd[i] = sol.cd[j]
           /\ sol.sd[j] < sol.sd[i]

\* The completion times reported with a solution: C of model_1, cd of the
\* flow models.
CompletionTimes == IF model = "model_1" THEN sol.C ELSE sol.cd

MaxCompletion == MaxOver(D, CompletionTimes)

\* C12: in every solution of a static model, the reported makespan equals the
\* maximum completion time over all tasks.
C12_MakespanIsMaxCompletion ==
    status = "optimal" => sol.makespan = MaxCompletion

\* What the constraints Cmax_geq_C_i and makespan >= cd[j] do give.
MakespanAtLeastCompletions ==
    status = "optimal" => \A i \in D : sol.makespan >= CompletionTimes[i]

(***************************************************************************)
(* Dynamic MILP model: dynamic/models/milp.py make_lp                      *)
(***************************************************************************)

\* M = 999999
BigM == 999999

\* Last time unit of the dynamic instances: T = instance.time_periods[1:]
\* is 1 .. DynHorizon (the source fixes 100 time units).
DynHorizon == 4

\* Degradation and metabolization rates are the fractions k / RateDen.
RateDen == 2

\* A concentration of 1.0. Concentrations are kept as integer numerators over
\* Unit; two divisions by RateDen happen per time unit, so every value the
\* model computes is an exact integer.
Unit == RateDen ^ (2 * (DynHorizon - 1))

\* The least number of whole units that is >= the numerator v. An amount v
\* is at most M * k (M in units of concentration) exactly when
\* UnitsCeil(v) <= BigM * k.
UnitsCeil(v) == (v + Unit - 1) \div Unit

TASKS == {1, 2}

PRODUCTS == {0, 1, 2}

\* The nodes of the instance: the depot 0 and the tasks.
DynNodes == {0} \cup TASKS

DynT == 1..DynHorizon

\* Values the generated dynamic instances draw from: initial concentration
\* of the products 0, 1, 2 at every task (in units); the kinetics, a triple of
\* the degradation rates of the products 0, 1, 2, the metabolization rates
\* <<mr(1, 2), mr(2, 1)>> and the metabolization rates <<mr(0, 1), mr(0, 2)>>
\* (numerators over RateDen; every other entry of the matrix is 0); the
\* removal durations of the tasks 1, 2; and the crews <<Qn, Qc>> of the depot.
VChoices == {<<0, 2, 1>>}

KineticsChoices ==
    {<<<<0, 1, 1>>, <<1, 0>>, <<0, 0>>>>,
     <<<<0, 0, 0>>, <<0, 0>>, <<0, 0>>>>,
     <<<<1, RateDen, 0>>, <<RateDen, 1>>, <<0, 0>>>>,
     <<<<0, 0, 1>>, <<RateDen, 1>>, <<0, 0>>>>,
     <<<<0, 0, 0>>, <<0, 0>>, <<RateDen, RateDen>>>>}

DurationChoices == {<<2, 1>>}

CrewChoices == {<<1, 1>>, <<1, 2>>}

\* Instance.resources: the crews summed over the nodes.
resources(in) ==
    [Qn |-> SumOver(DOMAIN in.Qn, in.Qn), Qc |-> SumOver(DOMAIN in.Qc, in.Qc)]

\* RESOURCES["N"]: the neutralize crews (Qn of Instance.resources)
RESOURCES_N(in) == resources(in).Qn

\* RESOURCES["R"]: the remove crews (Qc of Instance.resources)
RESOURCES_R(in) == resources(in).Qc

\* d[i][p][t] == w[i][p][t - 1] * dr(p)
Degraded(in, wp, i, p) == (wp[<<i, p>>] * in.dr[p]) \div RateDen

\* w[i][p][t - 1] - d[i][p][t]
Remaining(in, wp, i, p) == wp[<<i, p>>] - Degraded(in, wp, i, p)

\* (w[i][p][t - 1] - d[i][p][t]) * mr(p, s): the upper bound of q[i][p][s][t]
MetabolizedHi(in, wp, i, p, s) ==
    (Remaining(in, wp, i, p) * in.mr[<<p, s>>]) \div RateDen

\* The lower bound of q[i][p][s][t], s # 0:
\* (w[i][p][t - 1] - d[i][p][t]) * mr(p, s) - M * (x[i][p][t] + y[i][t]),
\* and q >= 0 (lowBound)
MetabolizedLo(in, wp, xs, ys, i, p, s) ==
    LET hi  == MetabolizedHi(in, wp, i, p, s)
        ops == (IF <<i, p>> \in xs THEN 1 ELSE 0) + (IF i \in ys THEN 1 ELSE 0)
    IN  IF UnitsCeil(hi) <= BigM * ops THEN 0 ELSE hi - BigM * ops * Unit

\* The four constraints of the neutralizing operation on v = q[i][p][0][t]:
\* v >= 0, v <= w - d, v <= M * x, v >= w - d + M * x - M
NeutralizeOK(v, rem, xbit) ==
    /\ v >= 0
    /\ v <= rem
    /\ UnitsCeil(v) <= BigM * xbit
    /\ UnitsCeil(rem - v) <= BigM * (1 - xbit)

\* The removal operation without its fourth constraint.
RemovalOKNoFloor(v, rem, ybit) ==
    /\ v >= 0
    /\ v <= rem
    /\ UnitsCeil(v) <= BigM * ybit

\* The four constraints of the removal operation on v = r[i][p][t]:
\* v >= 0, v <= w - d, v <= M * y, v >= w - d + M * y - M
RemovalOK(v, rem, ybit) ==
    /\ v >= 0
    /\ v <= rem
    /\ UnitsCeil(v) <= BigM * ybit
    /\ UnitsCeil(rem - v) <= BigM * (1 - ybit)

\* A trailing window one time unit shorter than the removal duration.
time_window_short(in, i, t) ==
    {tau \in (t - in.DURATIONS[i] + 2)..t : tau >= 1}

\* time_window = range(t - DURATIONS[i] + 1, t + 1), tau >= 1
time_window(in, i, t) ==
    {tau \in (t - in.DURATIONS[i] + 1)..t : tau >= 1}

\* lpSum(y[i][tau] for tau in time_window if tau >= 1), with ys the value of
\* y at the time unit t being fixed and yh its values before t
RemovalSum(in, yh, ys, i, t) ==
    LET idx == {tau \in time_window(in, i, t) :
                   IF tau = t THEN i \in ys ELSE i \in yh[tau]}
    IN  lpSum(idx, [tau \in idx |-> 1])

\* Resource constraints (removal operation)
RemovalCapacity(in, zs) ==
    lpSum(zs, [i \in zs |-> 1]) <= RESOURCES_R(in)

\* Resource constraints (neutralizing operation)
NeutralizeCapacity(in, xs) ==
    lpSum(xs, [k \in xs |-> 1]) <= RESOURCES_N(in)

\* The exclusion constraint without its z[i][t] term.
OneOperationNoRemoval(xs, zs, i) ==
    LET idx == {k \in xs : k[1] = i}
    IN  lpSum(idx, [k \in idx |-> 1]) <= 1

\* Can't perform remove and neutralize operations at the same time
OneOperation(xs, zs, i) ==
    LET idx == {k \in xs : k[1] = i}
    IN  lpSum(idx, [k \in idx |-> 1]) + (IF i \in zs THEN 1 ELSE 0) <= 1

\* The model without the constraint on time unit 1.
WarmUpDropped(xs, ys, t) == TRUE

\* (test only) disable operations at t = 1
WarmUp(xs, ys, t) == t = 1 => (xs = {} /\ ys = {})

\* The model without the constraint on product 0.
NoNeutralizeSinkDropped(xs, i) == TRUE

\* (fix) can't neutralize product 0
NoNeutralizeSink(xs, i) == <<i, 0>> \notin xs

\* The cells q[i][p][s][t], s # 0, s # p, whose two bounds differ: the model
\* leaves their value to the solver.
FreeCells(in, wp, xs, ys) ==
    {k \in TASKS \X PRODUCTS \X (PRODUCTS \ {0}) :
        /\ k[2] # k[3]
        /\ MetabolizedLo(in, wp, xs, ys, k[1], k[2], k[3])
             < MetabolizedHi(in, wp, k[1], k[2], k[3])}

\* The open cells q[i][p][s][t] of the products being neutralized.
NeutralizedCells(in, wp, xs, ys) ==
    {k \in FreeCells(in, wp, xs, ys) : <<k[1], k[2]>> \in xs}

\* A value between the two bounds of q[i][p][s][t], s # 0: the amount that
\* flows from s into p at most, clipped to the bounds.
MetabolizedBetween(in, wp, xs, ys, i, p, s) ==
    LET lo == MetabolizedLo(in, wp, xs, ys, i, p, s)
        hi == MetabolizedHi(in, wp, i, p, s)
        inflow == MetabolizedHi(in, wp, i, s, p)
    IN  IF inflow < lo THEN lo ELSE IF inflow > hi THEN hi ELSE inflow

\* The values of q at a time unit: the neutralized amount towards product 0,
\* and for the other targets the lower bound on the cells of `low`, a value
\* between the bounds on the cells of `between` and the upper bound
\* elsewhere.
Flows(in, wp, xs, ys, low, between) ==
    [k \in TASKS \X PRODUCTS \X PRODUCTS |->
        IF k[3] = 0
        THEN CHOOSE v \in {0, Remaining(in, wp, k[1], k[2])} :
                 NeutralizeOK(v, Remaining(in, wp, k[1], k[2]),
                              IF <<k[1], k[2]>> \in xs THEN 1 ELSE 0)
        ELSE IF k \in low
             THEN MetabolizedLo(in, wp, xs, ys, k[1], k[2], k[3])
             ELSE IF k \in between
                  THEN MetabolizedBetween(in, wp, xs, ys, k[1], k[2], k[3])
                  ELSE MetabolizedHi(in, wp, k[1], k[2], k[3])]

\* The values of r at a time unit
Removed(in, wp, ys) ==
    [k \in TASKS \X PRODUCTS |->
        CHOOSE v \in {0, Remaining(in, wp, k[1], k[2])} :
            RemovalOK(v, Remaining(in, wp, k[1], k[2]),
                      IF k[1] \in ys THEN 1 ELSE 0)]

\* The update without the removal term.
ConcentrationNoRemoval(in, wp, qs, rs, i, p) ==
    wp[<<i, p>>] - Degraded(in, wp, i, p)
    + SumOver(PRODUCTS, [s \in PRODUCTS |-> qs[<<i, s, p>>]])
    - SumOver(PRODUCTS, [s \in PRODUCTS |-> qs[<<i, p, s>>]])

\* The update without the outflow term.
ConcentrationNoOutflow(in, wp, qs, rs, i, p) ==
    wp[<<i, p>>] - Degraded(in, wp, i, p)
    + SumOver(PRODUCTS, [s \in PRODUCTS |-> qs[<<i, s, p>>]])
    - rs[<<i, p>>]

\* Updates concentration values based on performed operations:
\* w[i][p][t] == w[i][p][t - 1] - d[i][p][t] + lpSum(q[i][s][p][t] for s)
\*               - lpSum(q[i][p][s][t] for s) - r[i][p][t]
Concentration(in, wp, qs, rs, i, p) ==
    wp[<<i, p>>] - Degraded(in, wp, i, p)
    + SumOver(PRODUCTS, [s \in PRODUCTS |-> qs[<<i, s, p>>]])
    - SumOver(PRODUCTS, [s \in PRODUCTS |-> qs[<<i, p, s>>]])
    - rs[<<i, p>>]

ZeroCells == [k \in TASKS \X PRODUCTS |-> 0]

ZeroFlows == [k \in TASKS \X PRODUCTS \X PRODUCTS |-> 0]

DynInit ==
    /\ PrecIdle
    /\ StaticIdle
    /\ FileIdle
    /\ IlsIdle
    /\ SolIdle
    /\ \E v \in VChoices, kin \in KineticsChoices,
          dur \in DurationChoices, crews \in CrewChoices :
          inst = [V |-> [k \in TASKS \X PRODUCTS |-> v[k[2] + 1] * Unit],
                  dr |-> [p \in PRODUCTS |-> kin[1][p + 1]],
                  mr |-> [k \in PRODUCTS \X PRODUCTS |->
                            IF k = <<1, 2>> THEN kin[2][1]
                            ELSE IF k = <<2, 1>> THEN kin[2][2]
                            ELSE IF k = <<0, 1>> THEN kin[3][1]
                            ELSE IF k = <<0, 2>> THEN kin[3][2] ELSE 0],
                  DURATIONS |-> [i \in TASKS |-> dur[i]],
                  Qn |-> [n \in DynNodes |-> IF n = 0 THEN crews[1] ELSE 0],
                  Qc |-> [n \in DynNodes |-> IF n = 0 THEN crews[2] ELSE 0]]
    /\ now = 0
    /\ lp_x = <<>>
    /\ lp_y = <<>>
    /\ lp_z = <<>>
    /\ lp_w = <<>>
    /\ lp_d = <<>>
    /\ lp_q = <<>>
    /\ lp_r = <<>>

\* The operation constraints of make_lp at time unit t, for the values xs of
\* x[.][.][t] and ys of y[.][t]; zs is the value of z[.][t] they force.
OperationsFeasible(in, yh, xs, ys, zs, t) ==
    /\ WarmUp(xs, ys, t)
    /\ \A i \in TASKS : NoNeutralizeSink(xs, i)
    /\ NeutralizeCapacity(in, xs)
    /\ \A i \in TASKS : RemovalSum(in, yh, ys, i, t) <= 1
    /\ RemovalCapacity(in, zs)
    /\ \A i \in TASKS : OneOperation(xs, zs, i)

\* z[i][t] == lpSum(y[i][tau] for tau in time_window if tau >= 1)
ActiveRemovals(in, yh, ys, t) ==
    {i \in TASKS : RemovalSum(in, yh, ys, i, t) >= 1}

\* The solver fixes the variables of time unit 1: no operation, and the
\* initial concentration.
FixFirst(xs, ys) ==
    /\ now = 0
    /\ LET zs == ActiveRemovals(inst, lp_y, ys, 1)
       IN  /\ OperationsFeasible(inst, lp_y, xs, ys, zs, 1)
           /\ lp_z' = Append(lp_z, zs)
    /\ now' = 1
    /\ lp_x' = Append(lp_x, xs)
    /\ lp_y' = Append(lp_y, ys)
    /\ lp_w' = Append(lp_w, inst.V)
    /\ lp_d' = Append(lp_d, ZeroCells)
    /\ lp_q' = Append(lp_q, ZeroFlows)
    /\ lp_r' = Append(lp_r, ZeroCells)
    /\ UNCHANGED <<inst, notDynVars>>

\* The solver fixes the variables of the next time unit t >= 2: the
\* operations xs, ys, and for the flows the model leaves open the choices
\* `low` and, for the products being neutralized, `between`; the step exists only when every constraint of the time unit holds,
\* the lower bound 0 of w included.
FixNext(xs, ys) ==
    /\ now >= 1
    /\ now < DynHorizon
    /\ LET t  == now + 1
           wp == lp_w[now]
           zs == ActiveRemovals(inst, lp_y, ys, t)
       IN  /\ OperationsFeasible(inst, lp_y, xs, ys, zs, t)
           /\ \E low \in SUBSET FreeCells(inst, wp, xs, ys) :
               \E between \in SUBSET (NeutralizedCells(inst, wp, xs, ys) \ low) :
                 LET qs == Flows(inst, wp, xs, ys, low, between)
                     rs == Removed(inst, wp, ys)
                     wn == [k \in TASKS \X PRODUCTS |->
                              Concentration(inst, wp, qs, rs, k[1], k[2])]
                 IN  /\ \A k \in TASKS \X PRODUCTS : wn[k] >= 0
                     /\ lp_w' = Append(lp_w, wn)
                     /\ lp_q' = Append(lp_q, qs)
                     /\ lp_r' = Append(lp_r, rs)
                     /\ lp_d' = Append(lp_d,
                            [k \in TASKS \X PRODUCTS |->
                                Degraded(inst, wp, k[1], k[2])])
           /\ lp_z' = Append(lp_z, zs)
           /\ now' = t
    /\ lp_x' = Append(lp_x, xs)
    /\ lp_y' = Append(lp_y, ys)
    /\ UNCHANGED <<inst, notDynVars>>

DynNext ==
    \E xs \in SUBSET (TASKS \X PRODUCTS), ys \in SUBSET TASKS :
        \/ FixFirst(xs, ys)
        \/ FixNext(xs, ys)

SpecDyn == DynInit /\ [][DynNext]_vars

\* The time units whose variables are fixed.
Fixed == 1..now

\* make_lp accepts the operation sequence: every time unit is fixed, with
\* every constraint holding.
Accepted == now = DynHorizon

\* A removal is active on task i at time unit t: one started at some tau of
\* the trailing window t - DURATIONS[i] + 1 .. t, tau >= 1.
RemovalActive(i, t) ==
    \E tau \in (t - inst.DURATIONS[i] + 1)..t :
        tau >= 1 /\ tau \in Fixed /\ i \in lp_y[tau]

\* The products neutralized at task i at time unit t.
Neutralized(i, t) == {p \in PRODUCTS : <<i, p>> \in lp_x[t]}

\* No operation is active at task i at time unit t.
NoOperationAt(i, t) == Neutralized(i, t) = {} /\ ~RemovalActive(i, t)

\* lost(i, p, t) * mr(p, s), with lost = concentration(i, p, t - 1) * dr(p)
LostShare(i, p, s, t) == (lp_d[t][<<i, p>>] * inst.mr[<<p, s>>]) \div RateDen

\* (concentration(i, p, t - 1) - lost(i, p, t)) * mr(p, s)
RemainingShare(i, p, s, t) ==
    ((lp_w[t - 1][<<i, p>>] - lp_d[t][<<i, p>>]) * inst.mr[<<p, s>>])
        \div RateDen

\* C17: at a task and time unit with no operation active, the mass moved
\* from product p to another product s # 0 is lost(i, p, t) * mr(p, s), the
\* share of the decayed mass.
C17_MetabolizesDecayedMass ==
    \A t \in Fixed \ {1}, i \in TASKS, p \in PRODUCTS, s \in PRODUCTS \ {0} :
        (p # s /\ NoOperationAt(i, t)) =>
            lp_q[t][<<i, p, s>>] = LostShare(i, p, s, t)

\* What the constraints give: the share of the mass that remains after decay.
MetabolizesRemainingMass ==
    \A t \in Fixed \ {1}, i \in TASKS, p \in PRODUCTS, s \in PRODUCTS \ {0} :
        (p # s /\ NoOperationAt(i, t)) =>
            lp_q[t][<<i, p, s>>] = RemainingShare(i, p, s, t)

\* C18: at the time unit at which a removal starts on task i (y[i][t] = 1),
\* the concentration of every product at task i is 0, the mass that
\* metabolization would have moved in from other products included.
C18_RemovalClears ==
    \A t \in Fixed, i \in TASKS :
        i \in lp_y[t] => \A p \in PRODUCTS : lp_w[t][<<i, p>>] = 0

\* Witness of C18: a removal starts on a task whose products held mass one
\* time unit before, part of which metabolization would have moved into
\* another product, and the task is empty at the start.
C18_Witness ==
    \E t \in Fixed \ {1}, i \in TASKS :
        /\ i \in lp_y[t]
        /\ \E p \in PRODUCTS, s \in PRODUCTS \ {0} :
               p # s /\ RemainingShare(i, p, s, t) > 0
        /\ \A p \in PRODUCTS : lp_w[t][<<i, p>>] = 0

\* The mass of product p of task i left after decay at time unit t:
\* concentration(i, p, t - 1) - lost(i, p, t).
AfterDecay(i, p, t) == lp_w[t - 1][<<i, p>>] - lp_d[t][<<i, p>>]

\* The mass that flows into product p of task i from the other products at t.
Inflow(i, p, t) ==
    SumOver(PRODUCTS \ {p}, [s \in PRODUCTS \ {p} |-> lp_q[t][<<i, s, p>>]])

\* A neutralized product sends its mass after decay into product 0, and a
\* product that is not neutralized sends nothing into product 0.
RoutedToSink ==
    \A t \in Fixed \ {1}, i \in TASKS, p \in PRODUCTS \ {0} :
        lp_q[t][<<i, p, 0>>] =
            IF p \in Neutralized(i, t) THEN AfterDecay(i, p, t) ELSE 0

\* What a neutralized product holds afterwards came from other products.
NothingOfItsOwnRemains ==
    \A t \in Fixed \ {1}, i \in TASKS, p \in PRODUCTS \ {0} :
        p \in Neutralized(i, t) => lp_w[t][<<i, p>>] <= Inflow(i, p, t)

\* A neutralized product sends nothing to the products other than 0.
NothingMetabolized ==
    \A t \in Fixed \ {1}, i \in TASKS, p \in PRODUCTS \ {0} :
        p \in Neutralized(i, t) =>
            \A s \in PRODUCTS \ {0, p} : lp_q[t][<<i, p, s>>] = 0

\* C19: when product p # 0 is neutralized at task i at time unit t, the mass
\* routed from p into product 0 is concentration(i, p, t - 1) - lost(i, p, t),
\* none of p's previous mass remains in p and none of it is metabolized into
\* other products; when p is not neutralized, nothing is routed from p into
\* product 0.
C19_NeutralizeRoutesToSink ==
    /\ RoutedToSink
    /\ NothingOfItsOwnRemains
    /\ NothingMetabolized

\* A product is neutralized and sends mass to a product other than 0 in the
\* same time unit.
NeutralizedAndMetabolized ==
    \E t \in Fixed \ {1}, i \in TASKS, p \in PRODUCTS \ {0} :
        /\ p \in Neutralized(i, t)
        /\ lp_q[t][<<i, p, 0>>] = AfterDecay(i, p, t)
        /\ \E s \in PRODUCTS \ {0, p} : lp_q[t][<<i, p, s>>] > 0

\* Every degradation rate and every metabolization rate is in [0, 1].
RatesInUnitInterval ==
    /\ \A p \in PRODUCTS : inst.dr[p] \in 0..RateDen
    /\ \A k \in PRODUCTS \X PRODUCTS : inst.mr[k] \in 0..RateDen

\* The operations xs, ys are admissible at the next time unit: they satisfy
\* every constraint on x, y and z.
Admissible(xs, ys) ==
    OperationsFeasible(inst, lp_y, xs, ys,
                       ActiveRemovals(inst, lp_y, ys, now + 1), now + 1)

\* The concentration update of the next time unit has a value under the
\* operations xs, ys: some choice of the open flows keeps every cell >= 0.
Simulatable(xs, ys) ==
    \E low \in SUBSET FreeCells(inst, lp_w[now], xs, ys) :
        \E between \in SUBSET (NeutralizedCells(inst, lp_w[now], xs, ys) \ low) :
            LET qs == Flows(inst, lp_w[now], xs, ys, low, between)
                rs == Removed(inst, lp_w[now], ys)
            IN  \A k \in TASKS \X PRODUCTS :
                    Concentration(inst, lp_w[now], qs, rs, k[1], k[2]) >= 0

\* Every concentration is >= 0 at every fixed time unit.
NonNegative ==
    \A t \in Fixed, k \in TASKS \X PRODUCTS : lp_w[t][k] >= 0

\* C20: with rates in [0, 1], every concentration is >= 0 at every time unit
\* of every admissible operation sequence, and the update never makes an
\* admissible operation sequence impossible to simulate.
C20_UpdateNeverNegative ==
    RatesInUnitInterval =>
        /\ NonNegative
        /\ (now >= 1 /\ now < DynHorizon) =>
               \A xs \in SUBSET (TASKS \X PRODUCTS), ys \in SUBSET TASKS :
                   Admissible(xs, ys) => Simulatable(xs, ys)

\* The metabolization rates of every product towards the products other than
\* 0 and itself sum to at most 1.
RowsAtMostOne ==
    \A p \in PRODUCTS :
        SumOver(PRODUCTS \ {0, p},
                [s \in PRODUCTS \ {0, p} |-> inst.mr[<<p, s>>]]) <= RateDen

\* With such rates every admissible step has a concentration update.
SimulatableWhenRowsAtMostOne ==
    (RowsAtMostOne /\ now >= 1 /\ now < DynHorizon) =>
        \A xs \in SUBSET (TASKS \X PRODUCTS), ys \in SUBSET TASKS :
            Admissible(xs, ys) => Simulatable(xs, ys)

\* No operation at the next time unit is admissible and has no concentration
\* update.
IdleStepImpossible ==
    /\ now >= 1
    /\ now < DynHorizon
    /\ Admissible({}, {})
    /\ ~Simulatable({}, {})

\* C21: once a removal has started on task i at time unit t, the
\* concentration of every product at task i is 0 at every time unit t2 >= t,
\* whatever operations are fixed afterwards.
C21_RemovedStaysRemoved ==
    \A t \in Fixed, t2 \in Fixed, i \in TASKS :
        (i \in lp_y[t] /\ t2 >= t) =>
            \A p \in PRODUCTS : lp_w[t2][<<i, p>>] = 0

\* Witness of C21: a removal started on a task that held mass, a product of
\* the task is neutralized at a later time unit, and the task is empty from
\* the start of the removal to the last time unit.
C21_Witness ==
    /\ Accepted
    /\ \E t \in Fixed \ {1}, t2 \in Fixed, i \in TASKS :
           /\ i \in lp_y[t]
           /\ t2 > t
           /\ Neutralized(i, t2) # {}
           /\ \E p \in PRODUCTS : lp_w[t - 1][<<i, p>>] > 0
           /\ \A t3 \in t..DynHorizon, p \in PRODUCTS : lp_w[t3][<<i, p>>] = 0

\* C4: at every task and time unit, the number of products being neutralized
\* plus the removal-active indicator is at most 1: no neutralize action inside
\* an active removal window, never two products of a task at once.
C4_OneOperationPerTask ==
    \A t \in Fixed, i \in TASKS :
        /\ Cardinality(Neutralized(i, t)) + (IF i \in lp_z[t] THEN 1 ELSE 0) <= 1
        /\ RemovalActive(i, t) => Neutralized(i, t) = {}
        /\ Cardinality(Neutralized(i, t)) <= 1

\* Witness of C4: an accepted sequence with a removal of two time units on
\* task 1, a neutralize action on task 1 after the window and one on task 2
\* inside it.
C4_Witness ==
    /\ Accepted
    /\ \E t \in Fixed :
          /\ t + 2 \in Fixed
          /\ 1 \in lp_y[t]
          /\ inst.DURATIONS[1] = 2
          /\ 1 \in lp_z[t + 1]
          /\ Neutralized(2, t + 1) # {}
          /\ Neutralized(1, t + 2) # {}

\* C5: at every time unit the number of tasks with an active removal is at
\* most the remove-crew capacity and the number of (task, product) neutralize
\* actions is at most the neutralize-crew capacity.
C5_CrewCapacity ==
    \A t \in Fixed :
        /\ Cardinality({i \in TASKS : RemovalActive(i, t)})
             <= SumOver(DynNodes, inst.Qc)
        /\ Cardinality(lp_x[t]) <= SumOver(DynNodes, inst.Qn)

\* Witness of C5: an accepted sequence that uses both capacities in full:
\* as many active removals as remove crews at one time unit, one of them in
\* the second time unit of its window, and as many neutralize actions as
\* neutralize crews at some time unit.
C5_Witness ==
    /\ Accepted
    /\ \E t \in Fixed :
          /\ Cardinality({i \in TASKS : RemovalActive(i, t)})
               = SumOver(DynNodes, inst.Qc)
          /\ \E i \in TASKS : RemovalActive(i, t) /\ i \notin lp_y[t]
    /\ \E t \in Fixed :
          Cardinality(lp_x[t]) = SumOver(DynNodes, inst.Qn)

\* No neutralize or remove operation is active at any fixed time unit.
NoOperation == \A t \in Fixed : lp_x[t] = {} /\ lp_y[t] = {}

\* The concentration of task i summed over the products at time unit t.
TotalMass(i, t) == SumOver(PRODUCTS, [p \in PRODUCTS |-> lp_w[t][<<i, p>>]])

\* C6: with no operation ever active, the total concentration of a task over
\* its products never increases from one time unit to the next, hence never
\* exceeds the initial total.
C6_MassNeverIncreases ==
    NoOperation =>
        \A i \in TASKS, t \in Fixed :
            /\ t >= 2 => TotalMass(i, t) <= TotalMass(i, t - 1)
            /\ TotalMass(i, t)
                 <= SumOver(PRODUCTS, [p \in PRODUCTS |-> inst.V[<<i, p>>]])

\* Witness of C6: a complete sequence without operations in which mass was
\* metabolized from one product to another and the total of a task dropped.
C6_Witness ==
    /\ Accepted
    /\ NoOperation
    /\ \E t \in Fixed, i \in TASKS :
          /\ t >= 2
          /\ TotalMass(i, t) < TotalMass(i, t - 1)
          /\ \E p, sp \in PRODUCTS : p # sp /\ lp_q[t][<<i, p, sp>>] > 0
          /\ \E p \in PRODUCTS : lp_w[t][<<i, p>>] > lp_w[t - 1][<<i, p>>]

\* C10: product 0 is never the target of a neutralize action.
C10_SinkNeverNeutralized ==
    \A t \in Fixed, i \in TASKS : <<i, 0>> \notin lp_x[t]

\* Witness of C10: an accepted sequence in which a product other than 0 was
\* neutralized and its mass reached product 0.
C10_Witness ==
    /\ Accepted
    /\ \E t \in Fixed, i \in TASKS, p \in PRODUCTS \ {0} :
          /\ <<i, p>> \in lp_x[t]
          /\ lp_q[t][<<i, p, 0>>] > 0
          /\ lp_w[t][<<i, 0>>] > lp_w[t - 1][<<i, 0>>]

\* C11: no neutralize action and no removal starts at time unit 1 on any
\* task, so no operation is active at time unit 1, and the concentration at
\* time unit 1 is the initial concentration of every task and product.
C11_WarmUp ==
    now >= 1 =>
        /\ lp_x[1] = {}
        /\ lp_y[1] = {}
        /\ lp_z[1] = {}
        /\ \A i \in TASKS : ~RemovalActive(i, 1) /\ Neutralized(i, 1) = {}
        /\ \A k \in TASKS \X PRODUCTS : lp_w[1][k] = inst.V[k]

\* Witness of C11: an accepted sequence whose operations start as early as
\* the model allows, a removal and a neutralize action at time unit 2.
C11_Witness ==
    /\ Accepted
    /\ lp_y[2] # {}
    /\ lp_x[2] # {}
    /\ \E k \in TASKS \X PRODUCTS : lp_w[2][k] # lp_w[1][k]

\* ---------------------------------------------------------------------------
\* Dynamic instance files: load_instance and _write_instance
\* ---------------------------------------------------------------------------
\* A file is a sequence of lines and a line a sequence of tokens.  A token is
\* an integer literal ("3"), a decimal literal ("0.25") or a comment marker.
\* Real values are carried in thousandths, so that the fixed two-decimal
\* formatting of the writer is a conversion that can lose digits.
Milli == 1000

TimeUnitsLast == 100

IntLit(n) == [k |-> "int", v |-> n]

DecLit(m) == [k |-> "dec", v |-> m]

Hash(tag) == [k |-> "hash", v |-> tag]

FormatDynamic == <<Hash(1)>>

IsComment(line) == Len(line) > 0 /\ line[1].k = "hash"

NotComment(line) == ~IsComment(line)

\* int(token) succeeds on integer literals only; float(token) on both.
IntOK(tok) == tok.k = "int"

FloatOK(tok) == tok.k \in {"int", "dec"}

FloatVal(tok) == IF tok.k = "int" THEN tok.v * Milli ELSE tok.v

\* f"{value:.2f}": round to the nearest hundredth, ties to the even digit
\* (the values used here that fall on a tie are exact binary fractions).
Round2(m) ==
    LET q == m \div 10
        rm == m % 10
    IN  IF rm < 5 THEN 10 * q
        ELSE IF rm > 5 THEN 10 * (q + 1)
        ELSE IF q % 2 = 0 THEN 10 * q ELSE 10 * (q + 1)

Fmt2f(m) == DecLit(Round2(m))

Least(S) == CHOOSE a \in S : \A b \in S : a <= b

Greatest(S) == CHOOSE a \in S : \A b \in S : a >= b

Error(kind) == [ok |-> FALSE, error |-> kind]

\* The shape each kind of line must have for its parsing statement to succeed.
ShapeOK(kind, line) ==
    CASE kind = "count" -> Len(line) = 1 /\ IntOK(line[1])
      [] kind = "pair"  -> Len(line) = 2 /\ FloatOK(line[2])
      [] kind = "idrow" -> /\ Len(line) >= 1
                           /\ IntOK(line[1])
                           /\ \A c \in 2..Len(line) : FloatOK(line[c])
      [] kind = "node"  -> Len(line) = 5 /\ \A c \in 1..5 : IntOK(line[c])

\* The exception raised when line number pos of the data is read as kind.
RowErr(data, kind, pos) ==
    IF pos > Len(data) THEN "StopIteration"
    ELSE IF ~ShapeOK(kind, data[pos]) THEN "ValueError"
    ELSE "none"

\* The first exception raised by a loop reading n lines after line a.
BlockErr(data, kind, a, n) ==
    LET bad == {c \in 1..n : RowErr(data, kind, a + c) # "none"}
    IN  IF bad = {} THEN "none" ELSE RowErr(data, kind, a + Least(bad))

Floats(line) == [c \in 1..(Len(line) - 1) |-> FloatVal(line[c + 1])]

\* A dict filled by dict[int(id_)] = row over the n lines after line a: the
\* last line of an id wins.
RowsById(data, a, n) ==
    LET ids == {data[a + c][1].v : c \in 1..n}
        last(id) == Greatest({c \in 1..n : data[a + c][1].v = id})
    IN  [id \in ids |-> Floats(data[a + last(id)])]

NodeRow(line) == [c \in 1..5 |-> line[c].v]

\* Graph.add_nodes_from: a node keeps the place of its first line and the
\* attributes of its last one.
NodeRows(data, a, n) ==
    LET first == {c \in 1..n : \A e \in 1..(c - 1) :
                                   data[a + e][1].v # data[a + c][1].v}
        last(id) == Greatest({c \in 1..n : data[a + c][1].v = id})
        place(c) == Cardinality({e \in first : e <= c})
    IN  [pl \in 1..Cardinality(first) |->
            LET c == CHOOSE e \in first : place(e) = pl
            IN  NodeRow(data[a + last(data[a + c][1].v)])]

\* load_instance: the header assertion, then the blocks in their fixed order,
\* each read with next() from the lines that are not comments.  Lines after
\* the time horizon are never read.
load_instance(lines) ==
    IF Len(lines) = 0 THEN Error("IndexError")
    ELSE IF lines[1] # FormatDynamic THEN Error("AssertionError")
    ELSE
    LET data == SelectSeq(lines, NotComment)
        e1 == RowErr(data, "count", 1)
        np == data[1][1].v
        e2 == BlockErr(data, "pair", 1, np)
        e3 == BlockErr(data, "pair", 1 + np, np)
        e4 == BlockErr(data, "idrow", 1 + 2 * np, np)
        an == 2 + 3 * np
        e5 == RowErr(data, "count", an)
        nn == data[an][1].v
        e6 == BlockErr(data, "node", an, nn)
        ac == an + nn + 1
        e7 == RowErr(data, "count", ac)
        nc == data[ac][1].v
        e8 == BlockErr(data, "idrow", ac, nc)
        at == ac + nc + 1
        e9 == RowErr(data, "count", at)
    IN  IF e1 # "none" THEN Error(e1)
        ELSE IF e2 # "none" THEN Error(e2)
        ELSE IF e3 # "none" THEN Error(e3)
        ELSE IF e4 # "none" THEN Error(e4)
        ELSE IF e5 # "none" THEN Error(e5)
        ELSE IF e6 # "none" THEN Error(e6)
        ELSE IF e7 # "none" THEN Error(e7)
        ELSE IF e8 # "none" THEN Error(e8)
        ELSE IF e9 # "none" THEN Error(e9)
        ELSE [ok |-> TRUE,
              risk |-> [c \in 1..np |-> FloatVal(data[1 + c][2])],
              degradation_rate |->
                  [c \in 1..np |-> FloatVal(data[1 + np + c][2])],
              metabolization_rate |-> RowsById(data, 1 + 2 * np, np),
              nodes |-> NodeRows(data, an, nn),
              initial_concentration |-> RowsById(data, ac, nc),
              time_horizon |-> data[at][1].v]

\* Instance.products: range(len(risk)).
products(in) == 0..(Len(in.risk) - 1)

\* Instance.metabolizing_rates can be built: every product has a row in the
\* dict and every row an entry for every product.
RatesOK(in) ==
    \A p \in products(in) :
        /\ p \in DOMAIN in.metabolization_rate
        /\ Len(in.metabolization_rate[p]) >= Len(in.risk)

\* The products whose initial concentration at node id can be read.
ConcReadable(in, id) ==
    IF id \notin DOMAIN in.initial_concentration THEN {}
    ELSE {p \in products(in) : p + 1 <= Len(in.initial_concentration[id])}

ConcOK(in, id) == ConcReadable(in, id) = products(in)

\* The lines _write_instance writes up to and including the node block.
WriteHead(in) ==
    LET n == Len(in.risk)
    IN  <<FormatDynamic, <<IntLit(n)>>>>
        \o [c \in 1..n |-> <<IntLit(c - 1), Fmt2f(in.risk[c])>>]
        \o [c \in 1..n |-> <<IntLit(c - 1), Fmt2f(in.degradation_rate[c])>>]

WriteRates(in) ==
    LET n == Len(in.risk)
    IN  [c \in 1..n |->
            <<IntLit(c - 1)>>
            \o [e \in 1..n |-> Fmt2f(in.metabolization_rate[c - 1][e])]]

WriteNodes(in) ==
    <<<<IntLit(Len(in.nodes))>>>>
    \o [c \in 1..Len(in.nodes) |-> [e \in 1..5 |-> IntLit(in.nodes[c][e])]]

\* The concentration line of the node at place c, cut where reading fails.
WriteConcRow(in, c) ==
    LET id == in.nodes[c][1]
        upto == IF ConcOK(in, id) THEN Len(in.risk)
                ELSE Least(products(in) \ ConcReadable(in, id))
    IN  <<IntLit(id)>>
        \o [e \in 1..upto |-> Fmt2f(in.initial_concentration[id][e])]

\* _write_instance: the lines written and whether the call returned.  An
\* exception leaves the lines written before it, the last one cut short.
\* The row count of the concentration block is the number of nodes and the
\* last line is the last entry of Instance.time_units.
write_instance(in) ==
    IF Len(in.risk) > 0 /\ ~RatesOK(in)
    THEN [ok |-> FALSE, lines |-> WriteHead(in) \o <<<<IntLit(0)>>>>]
    ELSE
    LET head == WriteHead(in) \o WriteRates(in) \o WriteNodes(in)
                \o <<<<IntLit(Len(in.nodes))>>>>
        bad == {c \in 1..Len(in.nodes) :
                   Len(in.risk) > 0 /\ ~ConcOK(in, in.nodes[c][1])}
        upto == IF bad = {} THEN Len(in.nodes) ELSE Least(bad)
        rows == [c \in 1..upto |-> WriteConcRow(in, c)]
    IN  IF bad = {}
        THEN [ok |-> TRUE, lines |-> head \o rows \o <<<<IntLit(TimeUnitsLast)>>>>]
        ELSE [ok |-> FALSE, lines |-> head \o rows]

\* The files of the model: a depot and one task, one or two products, every
\* product with the same risk, rate and concentration literals.
NumProductsChoices == {1, 2}

RiskLiterals == {DecLit(250), DecLit(125)}

DegradationLiterals == {DecLit(500), IntLit(1)}

MetabolizationLiterals == {IntLit(0), DecLit(250)}

ConcentrationLiterals == {DecLit(1500), DecLit(375)}

HorizonChoices == {50, TimeUnitsLast}

FileNodes == <<<<IntLit(0), IntLit(0), IntLit(0), IntLit(0), IntLit(0)>>,
               <<IntLit(1), IntLit(1), IntLit(1), IntLit(1), IntLit(2)>>>>

\* tagged: the file starts with the format tag; commented: it holds a comment
\* line; everywhere: every node has a concentration row, not the task alone.
InstanceFile(n, rk, dg, mt, cn, h, tagged, commented, everywhere) ==
    LET concIds == IF everywhere THEN <<0, 1>> ELSE <<1>>
    IN  (IF tagged THEN <<FormatDynamic>> ELSE <<>>)
        \o <<<<IntLit(n)>>>>
        \o (IF commented THEN <<<<Hash(0)>>>> ELSE <<>>)
        \o [c \in 1..n |-> <<IntLit(c - 1), rk>>]
        \o [c \in 1..n |-> <<IntLit(c - 1), dg>>]
        \o [c \in 1..n |-> <<IntLit(c - 1)>> \o [e \in 1..n |-> mt]]
        \o <<<<IntLit(Len(FileNodes))>>>>
        \o FileNodes
        \o <<<<IntLit(Len(concIds))>>>>
        \o [c \in 1..Len(concIds) |->
               <<IntLit(concIds[c])>> \o [e \in 1..n |-> cn]]
        \o <<<<IntLit(h)>>>>

FileChoices ==
    {InstanceFile(n, rk, dg, mt, cn, h, tagged, commented, everywhere) :
        n \in NumProductsChoices, rk \in RiskLiterals,
        dg \in DegradationLiterals, mt \in MetabolizationLiterals,
        cn \in ConcentrationLiterals, h \in HorizonChoices,
        tagged \in BOOLEAN, commented \in BOOLEAN, everywhere \in BOOLEAN}

\* Files whose declared counts do not match their rows: one count of a
\* well-formed file is raised or lowered by one; some of them also carry a
\* line after the time horizon.
CountedFiles ==
    {InstanceFile(n, DecLit(250), DecLit(500), IntLit(0), DecLit(1500), 50,
                  TRUE, FALSE, TRUE) : n \in NumProductsChoices}

\* The places of the lines that hold a single token: the three counts and
\* the time horizon of a file of the format.
SingleTokenLines(lines) == {c \in 1..Len(lines) : Len(lines[c]) = 1
                                                   /\ ~IsComment(lines[c])}

WithCount(lines, c, delta) ==
    [lines EXCEPT ![c] = <<IntLit(lines[c][1].v + delta)>>]

MiscountedFiles ==
    UNION {{WithCount(f, c, delta), WithCount(f, c, delta) \o <<<<IntLit(7)>>>>} :
              <<f, c, delta>> \in
                  {k \in CountedFiles \X (1..20) \X {0 - 1, 1} :
                      /\ k[2] \in SingleTokenLines(k[1])
                      /\ k[2] < Len(k[1])}}

FileInit ==
    /\ PrecIdle
    /\ StaticIdle
    /\ DynIdle
    /\ IlsIdle
    /\ SolIdle
    /\ infile \in FileChoices \cup MiscountedFiles
    /\ loaded = <<>>
    /\ outfile = <<>>
    /\ fpc = "start"

\* load_instance(path)
Load ==
    /\ fpc = "start"
    /\ loaded' = load_instance(infile)
    /\ fpc' = IF loaded'.ok THEN "loaded" ELSE "load_error"
    /\ UNCHANGED <<infile, outfile>>
    /\ UNCHANGED notFileVars

\* export_instance(instance, outfile_path) on the loaded instance
Write ==
    /\ fpc = "loaded"
    /\ LET out == write_instance(loaded)
       IN  /\ outfile' = out.lines
           /\ fpc' = IF out.ok THEN "written" ELSE "write_error"
    /\ UNCHANGED <<infile, loaded>>
    /\ UNCHANGED notFileVars

FileNext == Load \/ Write

SpecFile == FileInit /\ [][FileNext]_vars

\* The numeric content of a file: the value of every token of every line
\* that is not a comment.
NumericContent(lines) ==
    LET data == SelectSeq(lines, NotComment)
    IN  [c \in 1..Len(data) |->
            [e \in 1..Len(data[c]) |-> FloatVal(data[c][e])]]

TwoDecimals(lines) ==
    \A c \in 1..Len(lines) : \A e \in 1..Len(lines[c]) :
        lines[c][e].k = "dec" => lines[c][e].v % 10 = 0

\* A file is well formed when it loads, nothing follows the time horizon,
\* the product rows are numbered in order, the metabolization rows are
\* complete and every node has one complete concentration row, in the order
\* of the node block.
WellFormed(lines) ==
    LET in == load_instance(lines)
        data == SelectSeq(lines, NotComment)
        n == Len(in.risk)
        nn == Len(in.nodes)
    IN  /\ in.ok
        /\ Len(data) = 4 + 3 * n + 2 * nn
        /\ \A c \in 1..n :
              /\ data[1 + c][1] = IntLit(c - 1)
              /\ data[1 + n + c][1] = IntLit(c - 1)
              /\ data[1 + 2 * n + c][1] = IntLit(c - 1)
              /\ Len(data[1 + 2 * n + c]) = n + 1
        /\ data[3 + 3 * n + nn] = <<IntLit(nn)>>
        /\ \A c \in 1..nn :
              /\ data[3 + 3 * n + nn + c][1] = IntLit(in.nodes[c][1])
              /\ Len(data[3 + 3 * n + nn + c]) = n + 1

\* The file starts with the format tag.
HeaderTagged(lines) == Len(lines) > 0 /\ lines[1] = FormatDynamic

\* The number of rows (lines of several tokens) that follow line c.
RowsAfter(data, c) ==
    LET later == {e \in SingleTokenLines(data) : e > c}
    IN  (IF later = {} THEN Len(data) + 1 ELSE Least(later)) - c - 1

\* Every declared count matches the rows that follow it: three blocks of
\* rows after the product count, one block after the node count and after
\* the concentration-row count.
DeclaredCountsMatch(lines) ==
    LET data == SelectSeq(lines, NotComment)
        singles == SingleTokenLines(data)
        s1 == Least(singles)
        s2 == Least({e \in singles : e > s1})
        s3 == Least({e \in singles : e > s2})
    IN  /\ Cardinality(singles) >= 3
        /\ s1 = 1
        /\ RowsAfter(data, s1) = 3 * data[s1][1].v
        /\ RowsAfter(data, s2) = data[s2][1].v
        /\ RowsAfter(data, s3) = data[s3][1].v

Malformed(lines) == ~HeaderTagged(lines) \/ ~DeclaredCountsMatch(lines)

LoadReturned == fpc \notin {"idle", "start"}

\* C13: load_instance fails with the MalformedInstance error, and returns no
\* Instance, whenever the format tag is absent or a declared count (product
\* count, node count, concentration-row count) does not match the number of
\* rows that follow it.
C13_MalformedInstance ==
    (LoadReturned /\ Malformed(infile))
        => /\ ~loaded.ok
           /\ loaded.error = "MalformedInstance"

\* The exceptions load_instance does raise on these files: the
\* AssertionError of the tag check, or the ValueError or StopIteration of the
\* statement that meets a line of another block or the end of the file.
MalformedErrors ==
    (LoadReturned /\ Malformed(infile) /\ ~loaded.ok)
        => loaded.error \in {"AssertionError", "ValueError", "StopIteration"}

\* A file with a miscounted block that load_instance accepts: the line of
\* the time horizon is read as the missing concentration row and the line
\* after it as the time horizon.
MiscountedLoaded ==
    /\ LoadReturned
    /\ HeaderTagged(infile)
    /\ ~DeclaredCountsMatch(infile)
    /\ loaded.ok

Exported == fpc \in {"written", "write_error"}

\* C7: for a well-formed file whose values have at most two decimals,
\* load_instance followed by _write_instance returns and writes a file with
\* the same numeric content: product count, risks, degradation rates,
\* metabolization rows, node rows, concentration-row count and rows, and the
\* time horizon on the last line.
C7_RoundTrip ==
    (Exported /\ WellFormed(infile) /\ TwoDecimals(infile))
        => /\ fpc = "written"
           /\ NumericContent(outfile) = NumericContent(infile)

\* The case of C7: a well-formed file with two-decimal values, holding a
\* comment line and a rate written as an integer literal, was loaded and
\* written back.
C7_Witness ==
    /\ fpc = "written"
    /\ WellFormed(infile)
    /\ TwoDecimals(infile)
    /\ \E c \in 2..Len(infile) : IsComment(infile[c])
    /\ \E c \in 1..Len(infile) : Len(infile[c]) = 2 /\ infile[c][2] = IntLit(1)

\* What the round trip does reproduce: every line before the last one, the
\* last line being the last entry of Instance.time_units whatever the file's
\* time horizon.
RoundTripButHorizon ==
    (Exported /\ WellFormed(infile) /\ TwoDecimals(infile))
        => /\ fpc = "written"
           /\ LET a == NumericContent(infile)
                  b == NumericContent(outfile)
              IN  /\ Len(a) = Len(b)
                  /\ \A c \in 1..(Len(a) - 1) : a[c] = b[c]
                  /\ b[Len(b)] = <<TimeUnitsLast * Milli>>

\* The two-decimal format is a conversion: a third decimal is lost.
ThirdDecimalLost ==
    (fpc = "written" /\ ~TwoDecimals(infile))
        => NumericContent(outfile) # NumericContent(infile)

\* ---------------------------------------------------------------------------
\* Iterated local search: the ensemble of runs, the budget and the seeds
\* ---------------------------------------------------------------------------
\* The command line gives evaluations, runs, parallel, seed and tuning.  The
\* driver and the search kernel follow the state machine
\* Init -> Evaluate(initial) -> {Perturb -> LocalSearch -> Accept}* -> Terminate;
\* local_search is the interface between the two.
DefaultEvaluations == 10000

Runs == 3

MaxIterations == 2

RngMod == 16

IlsTasks == {1, 2, 3}

IlsRisk == <<3, 5, 10>>

IlsDuration == <<2, 1, 1>>

EvaluationsChoices == {0, 2, 6}

ParallelChoices == {1, 2}

SeedChoices == {0, 1}

\* --evaluations: 0 stands for the default of |v_d| * 10,000 calls.
BudgetMax(opts) ==
    IF opts.evaluations = 0
    THEN Cardinality(IlsTasks) * DefaultEvaluations
    ELSE opts.evaluations

\* --runs and --tuning: the tuning mode performs a single run.
NumRuns(opts) == IF opts.tuning THEN 1 ELSE Runs

\* The random generator of a run: a linear congruential sequence.
RngNext(state) == (5 * state + 3) % RngMod

\* The seed of run k is derived from the base seed and the run index alone.
RunSeed(base, k) == (base + k) % RngMod

GeneratorShared(k) == 1

\* The generator run k draws from: its own.
Generator(k) == k

\* The evaluator: the risk-weighted sum of the completion times of the tasks
\* processed in the order of the schedule.
CompletionOf(schedule, pos) ==
    SumOver(1..pos, [c \in 1..pos |-> IlsDuration[schedule[c]]])

Objective(schedule) ==
    SumOver(1..Len(schedule),
            [c \in 1..Len(schedule) |->
                IlsRisk[schedule[c]] * CompletionOf(schedule, c)])

Swap(schedule, a, b) ==
    [c \in 1..Len(schedule) |->
        IF c = a THEN schedule[b] ELSE IF c = b THEN schedule[a]
        ELSE schedule[c]]

\* Perturb: exchange the two positions the random draw selects.
PerturbOp(schedule, r) ==
    LET n == Len(schedule)
    IN  Swap(schedule, (r % n) + 1, ((r \div n) % n) + 1)

\* One evaluator call: the budget caps the calls, each call is counted.
CanEvaluate(cbudget) == cbudget.consumed < cbudget.max

Spend(cbudget) == [cbudget EXCEPT !.consumed = @ + 1]

RECURSIVE Descend(_, _, _)
\* The kernel's descent over the adjacent exchanges, first improvement first;
\* found_at is the index of the call that found the solution kept.
Descend(csolution, cbudget, pos) ==
    IF pos >= Len(csolution.schedule) \/ ~CanEvaluate(cbudget)
    THEN [csolution |-> csolution, cbudget |-> cbudget]
    ELSE LET neighbor == Swap(csolution.schedule, pos, pos + 1)
             spent == Spend(cbudget)
         IN  IF Objective(neighbor) < csolution.objective
             THEN Descend([schedule |-> neighbor,
                           objective |-> Objective(neighbor),
                           found_at |-> spent.consumed], spent, 1)
             ELSE Descend(csolution, spent, pos + 1)

\* _lib.local_search: evaluate the solution handed in, then descend.
KernelLocalSearch(csolution, cbudget) ==
    IF ~CanEvaluate(cbudget)
    THEN [csolution |-> csolution, cbudget |-> cbudget]
    ELSE LET spent == Spend(cbudget)
         IN  Descend([csolution EXCEPT
                          !.objective = Objective(csolution.schedule),
                          !.found_at = spent.consumed], spent, 1)

\* Solution.c_struct and Budget.c_struct
SolutionStruct(solution) ==
    [schedule |-> solution.schedule, objective |-> solution.objective,
     found_at |-> solution.consumed_budget]

BudgetStruct(budget) == [max |-> budget.max, consumed |-> budget.consumed]

local_search_swapped(solution, budget) ==
    LET out == KernelLocalSearch(SolutionStruct(solution), BudgetStruct(budget))
    IN  [solution |-> [schedule |-> out.csolution.schedule,
                       objective |-> out.csolution.objective,
                       consumed_budget |-> out.cbudget.consumed],
         budget |-> [budget EXCEPT !.consumed = out.csolution.found_at]]

\* local_search(solution, budget): call the kernel on the C views, then copy
\* objective, found_at and consumed back.
local_search(solution, budget) ==
    LET out == KernelLocalSearch(SolutionStruct(solution), BudgetStruct(budget))
    IN  [solution |-> [schedule |-> out.csolution.schedule,
                       objective |-> out.csolution.objective,
                       consumed_budget |-> out.csolution.found_at],
         budget |-> [budget EXCEPT !.consumed = out.cbudget.consumed]]

\* The state of one run.  Init and Evaluate(initial): the tasks in the order
\* of their numbers, evaluated with the first call of the budget.
InitialSchedule == <<1, 2, 3>>

StartOfRun(opts) ==
    LET initial == [schedule |-> InitialSchedule,
                    objective |-> Objective(InitialSchedule),
                    consumed_budget |-> 1]
    IN  [pc |-> "perturb", iter |-> 0,
         working |-> initial, candidate |-> initial, best |-> initial,
         budget |-> [max |-> BudgetMax(opts), consumed |-> 1]]

\* The budget is checked before each Perturb step.
Exhausted(rs) == rs.budget.consumed >= rs.budget.max

DoPerturb(rs, r) ==
    [rs EXCEPT !.pc = "search",
               !.candidate = [rs.working EXCEPT
                                 !.schedule = PerturbOp(@, r)]]

DoSearch(rs) ==
    LET out == local_search(rs.candidate, rs.budget)
    IN  [rs EXCEPT !.pc = "accept",
                   !.candidate = out.solution,
                   !.budget = out.budget]

\* Accept a candidate no worse than the best found; the best is replaced on
\* improvement only.
DoAccept(rs) ==
    LET accepted == rs.candidate.objective <= rs.best.objective
        improved == rs.candidate.objective < rs.best.objective
    IN  [rs EXCEPT !.pc = "perturb",
                   !.iter = @ + 1,
                   !.working = IF accepted THEN rs.candidate ELSE @,
                   !.best = IF improved THEN rs.candidate ELSE @]

DoTerminate(rs) == [rs EXCEPT !.pc = "done"]

\* What the driver reports for a run.
Report(rs) ==
    [objective |-> rs.best.objective, schedule |-> rs.best.schedule,
     found_at |-> rs.best.consumed_budget]

IlsInit ==
    /\ PrecIdle
    /\ StaticIdle
    /\ DynIdle
    /\ FileIdle
    /\ SolIdle
    /\ args \in [evaluations : EvaluationsChoices, parallel : ParallelChoices,
                 seed : SeedChoices, tuning : BOOLEAN]
    /\ nextRun = 1
    /\ worker = [w \in 1..args.parallel |-> 0]
    /\ run = <<>>
    /\ rngs = [g \in 1..Runs |-> 0]
    /\ results = <<>>

\* A free worker takes the next run and seeds its generator.
StartRun(w) ==
    /\ worker[w] = 0
    /\ nextRun <= NumRuns(args)
    /\ worker' = [worker EXCEPT ![w] = nextRun]
    /\ nextRun' = nextRun + 1
    /\ run' = Append(run, StartOfRun(args))
    /\ rngs' = [rngs EXCEPT ![Generator(nextRun)] = RunSeed(args.seed, nextRun)]
    /\ UNCHANGED <<args, results>>
    /\ UNCHANGED notIlsVars

Perturb(w) ==
    /\ worker[w] # 0
    /\ LET k == worker[w]
           r == RngNext(rngs[Generator(k)])
       IN  /\ run[k].pc = "perturb"
           /\ ~Exhausted(run[k])
           /\ run[k].iter < MaxIterations
           /\ rngs' = [rngs EXCEPT ![Generator(k)] = r]
           /\ run' = [run EXCEPT ![k] = DoPerturb(@, r)]
    /\ UNCHANGED <<args, nextRun, worker, results>>
    /\ UNCHANGED notIlsVars

LocalSearch(w) ==
    /\ worker[w] # 0
    /\ run[worker[w]].pc = "search"
    /\ run' = [run EXCEPT ![worker[w]] = DoSearch(@)]
    /\ UNCHANGED <<args, nextRun, worker, rngs, results>>
    /\ UNCHANGED notIlsVars

Accept(w) ==
    /\ worker[w] # 0
    /\ run[worker[w]].pc = "accept"
    /\ run' = [run EXCEPT ![worker[w]] = DoAccept(@)]
    /\ UNCHANGED <<args, nextRun, worker, rngs, results>>
    /\ UNCHANGED notIlsVars

\* The budget is exhausted: the run ends and its worker reports the result.
Terminate(w) ==
    /\ worker[w] # 0
    /\ LET k == worker[w]
       IN  /\ run[k].pc = "perturb"
           /\ Exhausted(run[k])
           /\ run' = [run EXCEPT ![k] = DoTerminate(@)]
           /\ results' = results @@ (k :> Report(run[k]))
    /\ worker' = [worker EXCEPT ![w] = 0]
    /\ UNCHANGED <<args, nextRun, rngs>>
    /\ UNCHANGED notIlsVars

IlsNext ==
    \/ \E w \in DOMAIN worker : StartRun(w)
    \/ \E w \in DOMAIN worker : Perturb(w)
    \/ \E w \in DOMAIN worker : LocalSearch(w)
    \/ \E w \in DOMAIN worker : Accept(w)
    \/ \E w \in DOMAIN worker : Terminate(w)

SpecILS == IlsInit /\ [][IlsNext]_vars

RECURSIVE RunAlone(_, _)
\* A run executed from its start to its end with a generator of its own.
RunAlone(rs, g) ==
    CASE rs.pc = "done" -> rs
      [] rs.pc = "perturb" ->
           IF Exhausted(rs) THEN RunAlone(DoTerminate(rs), g)
           ELSE IF rs.iter >= MaxIterations THEN rs
           ELSE RunAlone(DoPerturb(rs, RngNext(g)), RngNext(g))
      [] rs.pc = "search" -> RunAlone(DoSearch(rs), g)
      [] rs.pc = "accept" -> RunAlone(DoAccept(rs), g)

\* The result of run k as a function of the base seed and the run index.
ExpectedResult(k) == Report(RunAlone(StartOfRun(args), RunSeed(args.seed, k)))

C9_RunsReproducible ==
    \A k \in DOMAIN results : results[k] = ExpectedResult(k)

\* Witness of C9: two workers, a later run reported before an earlier one,
\* and two runs of the ensemble reporting different schedules.
C9_Witness ==
    /\ args.parallel = 2
    /\ \E k \in DOMAIN results : \E e \in 1..(k - 1) :
          /\ e \notin DOMAIN results
          /\ e \in DOMAIN run
    /\ \E k, e \in DOMAIN results : results[k].schedule # results[e].schedule

\* ---------------------------------------------------------------------------
\* Solution files (export_solution, import_solution) and objective reporting
\* ---------------------------------------------------------------------------
\* A solution is a mapping from variable names to values, kept in insertion
\* order as a sequence of <<name, value>> pairs; a value is an int or a float
\* (in thousandths).  A line of a solution file is the sequence of its
\* pieces: the name, "=" and the characters of the value, or "#" and a title.
DigitChars == <<"0", "1", "2", "3", "4", "5", "6", "7", "8", "9">>

DigitChar(n) == DigitChars[n + 1]

DigitVal(ch) == CHOOSE n \in 0..9 : DigitChars[n + 1] = ch

RECURSIVE StrInt(_)
\* str(n) of an int
StrInt(n) ==
    IF n < 10 THEN <<DigitChar(n)>>
    ELSE StrInt(n \div 10) \o <<DigitChar(n % 10)>>

\* str(x) of a float: the integer part, a point and the decimals without
\* trailing zeros, one decimal at least
StrFloat(m) ==
    LET f == m % Milli
        d1 == DigitChar(f \div (Milli \div 10))
        d2 == DigitChar((f \div (Milli \div 100)) % 10)
        d3 == DigitChar(f % 10)
    IN  StrInt(m \div Milli) \o <<".">>
        \o (IF f % 10 # 0 THEN <<d1, d2, d3>>
            ELSE IF f % (Milli \div 10) # 0 THEN <<d1, d2>>
            ELSE <<d1>>)

StrValue(val) == IF val.k = "int" THEN StrInt(val.v) ELSE StrFloat(val.v)

RECURSIVE ParseDigits(_)
ParseDigits(chars) ==
    IF chars = <<>> THEN 0
    ELSE ParseDigits(SubSeq(chars, 1, Len(chars) - 1)) * 10
         + DigitVal(chars[Len(chars)])

RECURSIVE Pow10(_)
Pow10(n) == IF n = 0 THEN 1 ELSE 10 * Pow10(n - 1)

\* The value a text stands for: an int without a point, a float with one.
ParseValue(chars) ==
    LET points == {c \in 1..Len(chars) : chars[c] = "."}
    IN  IF points = {} THEN IntLit(ParseDigits(chars))
        ELSE LET pt == Least(points)
                 decimals == SubSeq(chars, pt + 1, Len(chars))
             IN  DecLit(ParseDigits(SubSeq(chars, 1, pt - 1)) * Milli
                        + ParseDigits(decimals)
                          * Pow10(3 - Len(decimals)))

SolutionTitle == <<"#", "instance.dat">>

write_solution_nonzero(mapping) ==
    <<SolutionTitle>>
    \o [c \in 1..Len(SelectSeq(mapping, LAMBDA pr : pr[2].v # 0)) |->
           LET pr == SelectSeq(mapping, LAMBDA e : e[2].v # 0)[c]
           IN  <<pr[1], "=">> \o StrValue(pr[2])]

\* _write_solution(solution, instance_path, outfile): a first line, then one
\* 'name = value' line per variable, in the order of the mapping.
write_solution(mapping) ==
    <<SolutionTitle>>
    \o [c \in 1..Len(mapping) |->
           <<mapping[c][1], "=">> \o StrValue(mapping[c][2])]

IsVariableLine(line) == line[1] # "#"

\* import_solution(path): the comment lines are skipped, every other line is
\* parsed into mapping[name] = value.
import_solution(lines) ==
    LET body == SelectSeq(lines, IsVariableLine)
    IN  [c \in 1..Len(body) |->
            <<body[c][1], ParseValue(SubSeq(body[c], 3, Len(body[c])))>>]

\* sol.get(name): the value of the mapping, None when the name is missing.
None == [k |-> "none", v |-> 0]

Get(mapping, name) ==
    IF \E c \in 1..Len(mapping) : mapping[c][1] = name
    THEN mapping[CHOOSE c \in 1..Len(mapping) : mapping[c][1] = name][2]
    ELSE None

\* The graph the reports are computed on: G.destinations and the risks r.
ReportRisk == <<2, 6>>

CdName(i) == <<"cd_1", "cd_2">>[i]

Raised(kind) == [ok |-> FALSE, error |-> kind]

Returned(val) == [ok |-> TRUE, value |-> val]

\* cd = {i: sol.get(f"cd_{i}") for i in dest}
CompletionDates(mapping) == [i \in D |-> Get(mapping, CdName(i))]

\* assert None not in cd.values()
CompletionDatesKnown(mapping) ==
    \A i \in D : CompletionDates(mapping)[i] # None

\* sol.get("makespan", 0)
MakespanOrZero(mapping) ==
    IF Get(mapping, "makespan") = None THEN IntLit(0)
    ELSE Get(mapping, "makespan")

\* y_bar(G, sol), consumed to its end: for t in range(1, makespan + 1) the
\* sum of the risks of the sites with t < cd[i].
y_bar(mapping) ==
    IF ~CompletionDatesKnown(mapping) THEN Raised("AssertionError")
    ELSE IF MakespanOrZero(mapping).k # "int" THEN Raised("TypeError")
    ELSE LET cd == CompletionDates(mapping)
         IN  Returned([t \in 1..MakespanOrZero(mapping).v |->
                 LET late == {i \in D : t * Milli < FloatVal(cd[i])}
                 IN  SumOver(late, [i \in late |-> ReportRisk[i]])])

\* overall_risk(G, sol): sum(y_bar(G, sol))
overall_risk(mapping) ==
    LET ys == y_bar(mapping)
    IN  IF ~ys.ok THEN ys
        ELSE Returned(SumOver(DOMAIN ys.value, ys.value))

\* weighted_sum_completion_dates(G, sol): sum(r[i] * cd[i] for i in dest)
weighted_sum_completion_dates(mapping) ==
    IF ~CompletionDatesKnown(mapping) THEN Raised("AssertionError")
    ELSE Returned(SumOver(D, [i \in D |->
             ReportRisk[i] * FloatVal(CompletionDates(mapping)[i])]))

ReportFunctions == {"y_bar", "overall_risk", "weighted_sum_completion_dates"}

Outcome(fn, mapping) ==
    CASE fn = "y_bar" -> y_bar(mapping)
      [] fn = "overall_risk" -> overall_risk(mapping)
      [] fn = "weighted_sum_completion_dates" ->
             weighted_sum_completion_dates(mapping)

\* The solutions of the model: each variable present or not.
Entry(name, vals) == {<<>>} \cup {<<<<name, val>>>> : val \in vals}

SolutionChoices ==
    {a \o b \o c \o e :
        a \in Entry("makespan", {IntLit(2), IntLit(3), IntLit(10)}),
        b \in Entry("overall_risk", {DecLit(500), DecLit(85200), DecLit(2000)}),
        c \in Entry("cd_1", {IntLit(0), IntLit(2)}),
        e \in Entry("cd_2", {IntLit(3), IntLit(10)})}

SolInit ==
    /\ PrecIdle
    /\ StaticIdle
    /\ DynIdle
    /\ FileIdle
    /\ IlsIdle
    /\ solmap \in SolutionChoices
    /\ solfile = <<>>
    /\ imported = <<>>
    /\ reports = <<>>
    /\ spc = "start"

\* export_solution(solution, instance_path, outfile_path)
ExportSolution ==
    /\ spc = "start"
    /\ solfile' = write_solution(solmap)
    /\ spc' = "exported"
    /\ UNCHANGED <<solmap, imported, reports>>
    /\ UNCHANGED notSolVars

\* import_solution(path)
ImportSolution ==
    /\ spc = "exported"
    /\ imported' = import_solution(solfile)
    /\ spc' = "imported"
    /\ UNCHANGED <<solmap, solfile, reports>>
    /\ UNCHANGED notSolVars

\* One of the reporting functions is called on the imported solution.
ReportObjective(fn) ==
    /\ spc = "imported"
    /\ fn \notin DOMAIN reports
    /\ reports' = reports @@ (fn :> Outcome(fn, imported))
    /\ UNCHANGED <<solmap, solfile, imported, spc>>
    /\ UNCHANGED notSolVars

SolNext ==
    \/ ExportSolution
    \/ ImportSolution
    \/ \E fn \in ReportFunctions : ReportObjective(fn)

SpecSol == SolInit /\ [][SolNext]_vars

Missing(name) == Get(imported, name) = None

\* The values a reporting function needs: the completion date of every task,
\* and for y_bar and overall_risk the makespan.
NeededMissing(fn) ==
    \/ \E i \in D : Missing(CdName(i))
    \/ fn \in {"y_bar", "overall_risk"} /\ Missing("makespan")

\* C14: objective reporting over an imported solution ends in an explicit
\* error, never in a numeric result, whenever a value it needs is missing.
C14_MissingValueIsError ==
    \A fn \in DOMAIN reports : NeededMissing(fn) => ~reports[fn].ok

\* What the assertions of the code give: a missing completion date is an
\* error of every reporting function.
MissingCompletionDateIsError ==
    \A fn \in DOMAIN reports :
        (\E i \in D : Missing(CdName(i))) => ~reports[fn].ok

\* A solution without makespan is reported as an overall risk of 0.
SilentZero ==
    /\ "overall_risk" \in DOMAIN reports
    /\ Missing("makespan")
    /\ reports["overall_risk"] = Returned(0)

====
